---- MODULE Spec2Model ----
(***************************************************************************)
(* A model of the OptionCalculator pricing core: the Monte Carlo path      *)
(* simulator and its seeded generator (logic/monte_carlo.py), the option   *)
(* classes and their finite-difference Greeks (logic/option.py,            *)
(* american.py, asian.py, barrier.py), the validators                      *)
(* (utils/validators.py) and the facade (calculator.py).                   *)
(*                                                                         *)
(* Numbers.  The program computes in binary floating point; the model      *)
(* computes in fixed point:                                                *)
(*   - prices (S, K, barrier level, path cells, payoffs) in tenths of a    *)
(*     currency unit, so that the spot bumps 0.5 and 5.0 are integers;     *)
(*   - rates, volatilities, year fractions and growth/discount factors in  *)
(*     thousandths (One = 1000 stands for 1.0);                            *)
(*   - maturities in ticks of half a day (TicksPerYear ticks to a year).   *)
(* Every quotient is floored.  exp is its second-order expansion, sqrt the *)
(* integer square root, a standard-normal draw an integer in -2..2 that is *)
(* a fixed function of the seed and of the number of draws consumed since  *)
(* seeding.                                                                *)
(* ln, the normal distribution function and its density, which only the    *)
(* European closed form uses, are linearised.  NaN stands for the float    *)
(* that every comparison answers False for.                                *)
(***************************************************************************)
EXTENDS Integers, Sequences, FiniteSets, TLC

VARIABLES engine, rng, gen, last, snap, option, calc

vars == <<engine, rng, gen, last, snap, option, calc>>

(***************************************************************************)
(* Units and bounds                                                        *)
(***************************************************************************)
One == 1000
TicksPerYear == 730

\* the two option/engine instances that coexist in a run
Inst == {1, 2}

MaxN == 2
MaxM == 2
\* simulate_paths calls one generator may serve between two reseedings
MaxCalls == 2

Seeds == {42, 7}

None == [op |-> "none"]

(***************************************************************************)
(* Arithmetic helpers                                                      *)
(***************************************************************************)
\* the one element of a singleton: Only({F(x) : x \in {e}}) is F(e) with e
\* evaluated once, as an assignment to a local evaluates its right-hand side
Only(S) == CHOOSE x \in S : TRUE

Max(a, b) == IF a >= b THEN a ELSE b

Min(a, b) == IF a <= b THEN a ELSE b

RECURSIVE SqrtSearch(_, _, _)
SqrtSearch(n, lo, hi) ==
    IF lo >= hi THEN lo
    ELSE LET mid == (lo + hi + 1) \div 2
         IN IF mid * mid <= n THEN SqrtSearch(n, mid, hi)
                              ELSE SqrtSearch(n, lo, mid - 1)

\* floor of the square root of n >= 0
ISqrt(n) == SqrtSearch(n, 0, Min(n, 46340))

\* np.sqrt on a thousandths value
SqrtFx(x) == ISqrt(x * One)

\* np.exp on a thousandths value: 1 + x + x^2/2
ExpFx(x) == One + x + (x * x) \div (2 * One)

RECURSIVE SumSeq(_)
SumSeq(s) == IF s = <<>> THEN 0 ELSE Head(s) + SumSeq(Tail(s))

\* np.mean over a non-empty vector
Mean(s) == Only({SumSeq(x) \div Len(x) : x \in {s}})

(***************************************************************************)
(* The generator                                                           *)
(***************************************************************************)
\* np.random.default_rng(seed): a generator at the start of the seed's stream
DefaultRng(seed) == [seed |-> seed, pos |-> 0]

\* the k-th (0-based) standard-normal draw of the stream of a seed
Draw(seed, k) ==
    ((((seed + 1) * (k + 3) * (k + 3) + 7 * k + (seed \div 3)) % 11) % 5) - 2

\* rng.standard_normal(n): the next n draws
StandardNormal(g, n) == [i \in 1..n |-> Draw(g.seed, g.pos + i - 1)]

Advance(g, n) == [g EXCEPT !.pos = g.pos + n]

\* which generator the engine of instance i draws from: its own (self.rng)
RngSlotShared(i) == 1
RngSlot(i) == i

(***************************************************************************)
(* MonteCarloEngine                                                        *)
(***************************************************************************)
\* MonteCarloEngine.__init__: the attributes of a new engine
NewEngineObj(n, m, seed) ==
    [num_simulations |-> n, num_steps |-> m, seed |-> seed]

\* dt = T / self.num_steps, in thousandths of a year
DtFx(T, m) == (T * One) \div (TicksPerYear * m)

\* exp((r - q - 0.5 * sigma**2) * dt + sigma * sqrt(dt) * Z)
StepFactor(r, q, sigma, dt, Z) ==
    ExpFx(((r - q - (sigma * sigma) \div (2 * One)) * dt) \div One
          + (sigma * SqrtFx(dt) * Z) \div One)

\* paths = np.zeros((N, M + 1)); paths[:, 0] = S0, before the time loop:
\* row i holds the columns filled so far
InitPathsZero(n, S0) == [i \in 1..n |-> <<0>>]
InitPaths(n, S0) == [i \in 1..n |-> <<S0>>]

\* the time loop of simulate_paths from step t on; column t-1 is index t
RECURSIVE SimLoop(_, _, _, _, _, _, _, _, _)
SimLoop(paths, g, t, n, m, r, q, sigma, dt) ==
    IF t > m THEN [paths |-> paths, rng |-> g]
    ELSE LET Z == StandardNormal(g, n)
             col == [i \in 1..n |->
                        (paths[i][t] * StepFactor(r, q, sigma, dt, Z[i])) \div One]
         IN Only({SimLoop(next, g1, t + 1, n, m, r, q, sigma, dt) :
                     next \in {[i \in 1..n |-> Append(paths[i], col[i])]},
                     g1 \in {Advance(g, n)}})

\* simulate_paths(S0, T, r, sigma, q) on engine e with generator g:
\* the array returned and the generator afterwards
SimulatePaths(e, g, S0, T, r, sigma, q) ==
    SimLoop(InitPaths(e.num_simulations, S0), g, 1, e.num_simulations,
            e.num_steps, r, q, sigma, DtFx(T, e.num_steps))

\* reset_rng: self.rng = np.random.default_rng(self.seed)
ResetRngKeep(e, g) == g
ResetRngUnseeded(e, g) == DefaultRng(0)
ResetRng(e, g) == DefaultRng(e.seed)

(***************************************************************************)
(* Payoff evaluators and the LSM induction (MonteCarloEngine, and the      *)
(* _price_from_paths of the option classes)                                *)
(***************************************************************************)
\* str.lower() on the strings the model uses
Lower(s) ==
    CASE s = "CALL" -> "call"
      [] s = "Put" -> "put"
      [] s = "American" -> "american"
      [] s = "Arithmetic" -> "arithmetic"
      [] s = "GEOMETRIC" -> "geometric"
      [] s = "Up-And-Out" -> "up-and-out"
      [] s = "Barrier" -> "barrier"
      [] s = "Straddle" -> "straddle"
      [] OTHER -> s

\* 'up' in s, 'down' in s, 'out' in s  (substring tests)
HasUp(s) == s \in {"up-and-out", "up-and-in"}
HasDown(s) == s \in {"down-and-out", "down-and-in"}
HasOutAlways(s) == TRUE
HasOut(s) == s \in {"up-and-out", "down-and-out", "knockout"}

\* T in thousandths of a year
YearsFx(T) == (T * One) \div TicksPerYear

\* np.exp(-r * T)
DiscountT(r, T) == ExpFx((0 - r * YearsFx(T)) \div One)

\* np.exp(-r * dt)
DiscountStep(r, dt) == ExpFx((0 - r * dt) \div One)

\* np.maximum(x - K, 0) for a call, np.maximum(K - x, 0) otherwise
Payoff(isCall, x, K) == IF isCall THEN Max(x - K, 0) ELSE Max(K - x, 0)

RECURSIVE MaxSeq(_)
MaxSeq(s) == IF Len(s) = 1 THEN s[1] ELSE Max(Head(s), MaxSeq(Tail(s)))

RECURSIVE MinSeq(_)
MinSeq(s) == IF Len(s) = 1 THEN s[1] ELSE Min(Head(s), MinSeq(Tail(s)))

RECURSIVE ProdSeq(_)
ProdSeq(s) == IF s = <<>> THEN 1 ELSE Head(s) * ProdSeq(Tail(s))

RECURSIVE Pow(_, _)
Pow(b, n) == IF n = 0 THEN 1 ELSE b * Pow(b, n - 1)

RECURSIVE RootSearch(_, _, _, _)
RootSearch(p, n, lo, hi) ==
    IF lo >= hi THEN lo
    ELSE LET mid == (lo + hi + 1) \div 2
         IN IF Pow(mid, n) <= p THEN RootSearch(p, n, mid, hi)
                                ELSE RootSearch(p, n, lo, mid - 1)

\* np.exp(np.mean(np.log(row))) for a row of prices >= 0: the floored
\* geometric mean (0 as soon as one price is 0)
GeoMean(row) == RootSearch(ProdSeq(row), Len(row), 0, MaxSeq(row))

\* the averaging of an Asian option: arithmetic only for exactly 'arithmetic'
AsianAverage(average_type, row) ==
    IF average_type = "arithmetic" THEN Mean(row) ELSE GeoMean(row)

\* per-path payoffs of an Asian option
AsianPayoffs(paths, K, isCall, average_type) ==
    [i \in 1..Len(paths) |-> Payoff(isCall, AsianAverage(average_type, paths[i]), K)]

\* knocked: np.max(paths, axis=1) >= B for the two up kinds,
\* np.min(paths, axis=1) <= B for anything else
KnockedBeyond(row, barrier_type, B) ==
    IF barrier_type \in {"up-and-out", "up-and-in"} THEN MaxSeq(Tail(row)) > B
                                                    ELSE MinSeq(Tail(row)) < B
Knocked(row, barrier_type, B) ==
    IF barrier_type \in {"up-and-out", "up-and-in"} THEN MaxSeq(row) >= B
                                                    ELSE MinSeq(row) <= B

\* per-path payoffs of a barrier option
BarrierPayoffs(paths, K, isCall, barrier_type, B) ==
    [i \in 1..Len(paths) |->
        LET row == paths[i]
            vanilla == Payoff(isCall, row[Len(row)], K)
        IN IF HasOut(barrier_type)
           THEN (IF Knocked(row, barrier_type, B) THEN 0 ELSE vanilla)
           ELSE (IF Knocked(row, barrier_type, B) THEN vanilla ELSE 0)]

\* np.exp(-r * T) * np.mean(payoffs)
DiscountedMean(payoffs, r, T) == (DiscountT(r, T) * Mean(payoffs)) \div One
\* intrinsic_value[i, c] of _lsm_pricing; column c is index c + 1
Intrinsic(paths, K, option_type, i, c) ==
    Payoff(Lower(option_type) = "call", paths[i][c + 1], K)

\* the paths in the money at step t: intrinsic_value[:, t] > 0
InTheMoney(paths, K, option_type, t) ==
    {i \in 1..Len(paths) : Intrinsic(paths, K, option_type, i, t) > 0}

\* np.polyval(np.polyfit(X, Y, 2), X) at path i, as the fraction num/den.
\* A least-squares parabola through points with at most three distinct
\* abscissae passes through the mean of Y at each abscissa, so the fitted
\* value at X[i] is the mean of Y over the in-the-money paths whose price
\* equals X[i]; the engines of the model have at most three paths.
Continuation(paths, discounted, itm, t, i) ==
    Only({[num |-> SumSeq([j \in 1..Len(paths) |->
                               IF j \in same THEN discounted[j] ELSE 0]),
           den |-> Cardinality(same)] :
             same \in {{j \in itm : paths[j][t + 1] = paths[i][t + 1]}}})

\* exercise = intrinsic_value[itm, t] > continuation_value, at path i
Exercises(paths, K, option_type, discounted, itm, t, i) ==
    \E c \in {Continuation(paths, discounted, itm, t, i)} :
        Intrinsic(paths, K, option_type, i, t) * c.den > c.num

\* discounted_cf = cash_flows * np.exp(-r * dt)
DiscountedCf(cash_flows, r, dt) ==
    [i \in 1..Len(cash_flows) |-> (cash_flows[i] * DiscountStep(r, dt)) \div One]

\* one pass of the backward loop of _lsm_pricing, at step t
LsmStep(paths, K, r, dt, option_type, cash_flows, t) ==
    Only({ IF itm = {} THEN cash_flows
           ELSE [i \in 1..Len(paths) |->
                    IF i \in itm
                    THEN (IF Exercises(paths, K, option_type, discounted, itm, t, i)
                          THEN Intrinsic(paths, K, option_type, i, t)
                          ELSE discounted[i])
                    ELSE cash_flows[i]] :
             discounted \in {DiscountedCf(cash_flows, r, dt)},
             itm \in {InTheMoney(paths, K, option_type, t)} })

\* a backward loop that also visits step 0
RECURSIVE LsmLoopToZero(_, _, _, _, _, _, _)
LsmLoopToZero(paths, K, r, dt, option_type, cash_flows, t) ==
    IF t < 0 THEN cash_flows
    ELSE Only({LsmLoopToZero(paths, K, r, dt, option_type, next, t - 1) :
                  next \in {LsmStep(paths, K, r, dt, option_type, cash_flows, t)}})

\* for t in range(num_steps - 1, 0, -1), from step t down
RECURSIVE LsmLoop(_, _, _, _, _, _, _)
LsmLoop(paths, K, r, dt, option_type, cash_flows, t) ==
    IF t < 1 THEN cash_flows
    ELSE Only({LsmLoop(paths, K, r, dt, option_type, next, t - 1) :
                  next \in {LsmStep(paths, K, r, dt, option_type, cash_flows, t)}})

\* _lsm_pricing(paths, K, r, T, option_type) on engine e
LsmPricing(e, paths, K, r, T, option_type) ==
    LET dt == DtFx(T, e.num_steps)
    IN Only({ (DiscountStep(r, dt)
               * Mean(LsmLoop(paths, K, r, dt, option_type, terminal, e.num_steps - 1)))
              \div One :
                terminal \in {[i \in 1..Len(paths) |->
                                 Intrinsic(paths, K, option_type, i, e.num_steps)]} })

(***************************************************************************)
(* Pricing calls of the engine: each returns the value, the generator      *)
(* afterwards and the calls it made on the generator                       *)
(***************************************************************************)
LogReset == [call |-> "reset_rng"]

LogSim(g, S0, T, r, sigma, q) ==
    [call |-> "simulate_paths", start |-> g, S0 |-> S0, T |-> T, r |-> r,
     sigma |-> sigma, q |-> q]

\* self.reset_rng(); paths = self.simulate_paths(S0, T, r, sigma, q)
ResetAndSimulate(e, g, S0, T, r, sigma, q) ==
    Only({ Only({ [paths |-> res.paths, rng |-> res.rng,
                   log |-> <<LogReset, LogSim(g1, S0, T, r, sigma, q)>>] :
                     res \in {SimulatePaths(e, g1, S0, T, r, sigma, q)} }) :
             g1 \in {ResetRng(e, g)} })

PriceAmerican(e, g, S0, K, T, r, sigma, q, option_type) ==
    Only({ [value |-> LsmPricing(e, sim.paths, K, r, T, option_type),
            rng |-> sim.rng, log |-> sim.log] :
             sim \in {ResetAndSimulate(e, g, S0, T, r, sigma, q)} })

PriceAsian(e, g, S0, K, T, r, sigma, q, option_type, average_type) ==
    Only({ [value |-> DiscountedMean(
                         AsianPayoffs(sim.paths, K, Lower(option_type) = "call",
                                      average_type),
                         r, T),
            rng |-> sim.rng, log |-> sim.log] :
             sim \in {ResetAndSimulate(e, g, S0, T, r, sigma, q)} })

PriceBarrier(e, g, S0, K, T, r, sigma, q, option_type, barrier_type, barrier_level) ==
    Only({ [value |-> DiscountedMean(
                         BarrierPayoffs(sim.paths, K, Lower(option_type) = "call",
                                        barrier_type, barrier_level),
                         r, T),
            rng |-> sim.rng, log |-> sim.log] :
             sim \in {ResetAndSimulate(e, g, S0, T, r, sigma, q)} })

(***************************************************************************)
(* Option and its subclasses AmericanOption, AsianOption, BarrierOption    *)
(***************************************************************************)
\* default bumps: spot 0.5 and 5.0 (tenths), volatility and rate 0.01
\* (thousandths), time 1/365 year (ticks); the floor 1e-10 of the shortened
\* maturity is the smallest positive time of the model
DeltaBump == 5
GammaBump == 50
VegaBump == 10
RhoBump == 10
ThetaBump == 2
TFloor == 1

\* Option.__init__ and the __init__ of the subclass: the attributes
NewOption(style, S, K, T, r, sigma, q, option_type, average_type, barrier_type, barrier_level) ==
    [style |-> style, S |-> S, K |-> K, T |-> T, r |-> r, sigma |-> sigma, q |-> q,
     option_type |-> Lower(option_type), average_type |-> average_type,
     barrier_type |-> barrier_type, barrier_level |-> barrier_level]

\* the engine pricing call of the style of o, at maturity T
EnginePrice(o, e, g, T) ==
    CASE o.style = "american" ->
            PriceAmerican(e, g, o.S, o.K, T, o.r, o.sigma, o.q, o.option_type)
      [] o.style = "asian" ->
            PriceAsian(e, g, o.S, o.K, T, o.r, o.sigma, o.q, o.option_type,
                       o.average_type)
      [] o.style = "barrier" ->
            PriceBarrier(e, g, o.S, o.K, T, o.r, o.sigma, o.q, o.option_type,
                         o.barrier_type, o.barrier_level)

\* self.mc_engine.reset_rng(); self.mc_engine.price_<style>(..., T, ...)
ResetAndPrice(o, e, g, T) ==
    Only({ [value |-> res.value, rng |-> res.rng, log |-> <<LogReset>> \o res.log] :
             res \in {EnginePrice(o, e, ResetRng(e, g), T)} })

\* price() of AmericanOption, AsianOption, BarrierOption
Price(o, e, g) == ResetAndPrice(o, e, g, o.T)

\* an evaluator that tests option_type against the capitalised name
PriceFromPathsCapitalised(o, e, paths) ==
    CASE o.style = "american" ->
            LsmPricing(e, paths, o.K, o.r, o.T, o.option_type)
      [] o.style = "asian" ->
            DiscountedMean(AsianPayoffs(paths, o.K, o.option_type = "Call",
                                        o.average_type), o.r, o.T)
      [] o.style = "barrier" ->
            DiscountedMean(BarrierPayoffs(paths, o.K, o.option_type = "Call",
                                          o.barrier_type, o.barrier_level), o.r, o.T)

\* _price_from_paths(paths) of the three subclasses
PriceFromPaths(o, e, paths) ==
    CASE o.style = "american" ->
            LsmPricing(e, paths, o.K, o.r, o.T, o.option_type)
      [] o.style = "asian" ->
            DiscountedMean(AsianPayoffs(paths, o.K, o.option_type = "call",
                                        o.average_type), o.r, o.T)
      [] o.style = "barrier" ->
            DiscountedMean(BarrierPayoffs(paths, o.K, o.option_type = "call",
                                          o.barrier_type, o.barrier_level), o.r, o.T)

\* theta(bump) of the three subclasses
ThetaReversed(o, e, g, bump) ==
    Only({ Only({ [value |-> ((now.value - later.value) * TicksPerYear) \div bump,
                   rng |-> later.rng, log |-> now.log \o later.log] :
                     later \in {ResetAndPrice(o, e, now.rng, Max(o.T - bump, TFloor))} }) :
             now \in {ResetAndPrice(o, e, g, o.T)} })

Theta(o, e, g, bump) ==
    Only({ Only({ [value |-> ((later.value - now.value) * TicksPerYear) \div bump,
                   rng |-> later.rng, log |-> now.log \o later.log] :
                     later \in {ResetAndPrice(o, e, now.rng, Max(o.T - bump, TFloor))} }) :
             now \in {ResetAndPrice(o, e, g, o.T)} })

\* _get_paths_with_params(S, r, sigma): kw holds the arguments given
GetPathsNoReset(o, e, g, kw) ==
    LET S == IF "S" \in DOMAIN kw THEN kw.S ELSE o.S
        r == IF "r" \in DOMAIN kw THEN kw.r ELSE o.r
        sigma == IF "sigma" \in DOMAIN kw THEN kw.sigma ELSE o.sigma
    IN Only({ [paths |-> res.paths, rng |-> res.rng,
               log |-> <<LogSim(g, S, o.T, r, sigma, o.q)>>] :
                res \in {SimulatePaths(e, g, S, o.T, r, sigma, o.q)} })
GetPathsWithParams(o, e, g, kw) ==
    LET S == IF "S" \in DOMAIN kw THEN kw.S ELSE o.S
        r == IF "r" \in DOMAIN kw THEN kw.r ELSE o.r
        sigma == IF "sigma" \in DOMAIN kw THEN kw.sigma ELSE o.sigma
    IN ResetAndSimulate(e, g, S, o.T, r, sigma, o.q)

\* the central difference of delta, vega and rho: two bumped runs
CentralDifference(o, e, g, kwUp, kwDown, bump) ==
    Only({ Only({ LET price_up == PriceFromPaths(o, e, up.paths)
                      price_down == PriceFromPaths(o, e, down.paths)
                  IN [value |-> ((price_up - price_down) * One) \div (2 * bump),
                      rng |-> down.rng, log |-> up.log \o down.log] :
                     down \in {GetPathsWithParams(o, e, up.rng, kwDown)} }) :
             up \in {GetPathsWithParams(o, e, g, kwUp)} })

Delta(o, e, g, bump) ==
    CentralDifference(o, e, g, [S |-> o.S + bump], [S |-> o.S - bump], bump)

Gamma(o, e, g, bump) ==
    Only({ Only({ Only({
        LET price_up == PriceFromPaths(o, e, up.paths)
            price_center == PriceFromPaths(o, e, center.paths)
            price_down == PriceFromPaths(o, e, down.paths)
        IN [value |-> ((price_up - 2 * price_center + price_down) * One)
                      \div (bump * bump),
            rng |-> down.rng, log |-> up.log \o center.log \o down.log] :
                     down \in {GetPathsWithParams(o, e, center.rng, [S |-> o.S - bump])} }) :
                center \in {GetPathsWithParams(o, e, up.rng, [S |-> o.S])} }) :
             up \in {GetPathsWithParams(o, e, g, [S |-> o.S + bump])} })

Vega(o, e, g, bump) ==
    CentralDifference(o, e, g, [sigma |-> o.sigma + bump], [sigma |-> o.sigma - bump],
                      bump)

Rho(o, e, g, bump) ==
    CentralDifference(o, e, g, [r |-> o.r + bump], [r |-> o.r - bump], bump)

\* Option.get_all_greeks(): delta, gamma, vega, theta, rho in this order
GetAllGreeks(o, e, g) ==
    Only({ Only({ Only({ Only({ Only({
        [value |-> [delta |-> d.value, gamma |-> gm.value, vega |-> v.value,
                    theta |-> th.value, rho |-> rh.value],
         rng |-> rh.rng,
         log |-> d.log \o gm.log \o v.log \o th.log \o rh.log] :
                          rh \in {Rho(o, e, th.rng, RhoBump)} }) :
                     th \in {Theta(o, e, v.rng, ThetaBump)} }) :
                v \in {Vega(o, e, gm.rng, VegaBump)} }) :
           gm \in {Gamma(o, e, d.rng, GammaBump)} }) :
      d \in {Delta(o, e, g, DeltaBump)} })

(***************************************************************************)
(* Calls on engines                                                        *)
(***************************************************************************)
Engines == {NewEngineObj(n, m, s) : n \in 1..MaxN, m \in 1..MaxM, s \in Seeds}

\* arguments of a direct simulate_paths call
SimArgs ==
    { [S0 |-> 1000, T |-> 730, r |-> 50, sigma |-> 300, q |-> 0],
      [S0 |-> 1005, T |-> 730, r |-> 50, sigma |-> 300, q |-> 0],
      [S0 |-> 1000, T |-> 365, r |-> 60, sigma |-> 310, q |-> 20] }

\* bookkeeping of what happened to the generator of an instance: how it was
\* last seeded, whether that reseeding discarded draws already consumed, and
\* how many simulate_paths calls it has served since
GenNew == [via |-> "init", used |-> FALSE, calls |-> 0]

\* MonteCarloEngine(n, m, seed) replaces instance i
NewEngine(i, n, m, s) ==
    /\ engine' = [engine EXCEPT ![i] = NewEngineObj(n, m, s)]
    /\ rng' = [rng EXCEPT ![RngSlot(i)] = DefaultRng(s)]
    /\ gen' = [gen EXCEPT ![i] = GenNew]
    /\ last' = [op |-> "init", inst |-> i]
    /\ UNCHANGED <<snap, option, calc>>

\* the record of one simulate_paths call
SimRecord(i, a, res) ==
    [op |-> "simulate_paths", inst |-> i, args |-> a, gen |-> gen[i],
     paths |-> res.paths]

\* what is remembered of a call made on a just-seeded generator
SnapRecord(i, a, res) ==
    [op |-> "simulate_paths", engine |-> engine[i], args |-> a, paths |-> res.paths]

\* engine i .simulate_paths(S0, T, r, sigma, q); a call made on a just-seeded
\* generator may be remembered in snap, to be compared with a later call
SimulatePathsCall(i, a) ==
    /\ gen[i].calls < MaxCalls
    /\ \E res \in {SimulatePaths(engine[i], rng[RngSlot(i)], a.S0, a.T, a.r, a.sigma, a.q)} :
          /\ rng' = [rng EXCEPT ![RngSlot(i)] = res.rng]
          /\ last' = SimRecord(i, a, res)
          /\ snap' \in IF gen[i].calls = 0 THEN {snap, SnapRecord(i, a, res)} ELSE {snap}
    /\ gen' = [gen EXCEPT ![i].calls = @ + 1]
    /\ UNCHANGED <<engine, option, calc>>

\* engine i .reset_rng()
ResetRngCall(i) ==
    /\ rng' = [rng EXCEPT ![RngSlot(i)] = ResetRng(engine[i], rng[RngSlot(i)])]
    /\ gen' = [gen EXCEPT ![i] = [via |-> "reset", used |-> rng[RngSlot(i)].pos > 0,
                                   calls |-> 0]]
    /\ last' = [op |-> "reset_rng", inst |-> i]
    /\ UNCHANGED <<engine, snap, option, calc>>

\* the engine specification drives one engine object at a time
EngInst == {1}

InitEngine ==
    /\ engine \in {e \in [Inst -> Engines] : \A i \in Inst \ EngInst : e[i] = NewEngineObj(1, 1, 42)}
    /\ rng = [i \in Inst |-> DefaultRng(engine[i].seed)]
    /\ gen = [i \in Inst |-> GenNew]
    /\ last = None
    /\ snap = None
    /\ calc = None
    /\ option = [i \in Inst |-> None]

NextEngine ==
    \/ \E i \in EngInst, n \in 1..MaxN, m \in 1..MaxM, s \in Seeds : NewEngine(i, n, m, s)
    \/ \E i \in EngInst, a \in SimArgs : SimulatePathsCall(i, a)
    \/ \E i \in EngInst : ResetRngCall(i)

SpecEngine == InitEngine /\ [][NextEngine]_vars

(***************************************************************************)
(* The European option (logic/european.py); the Black-Scholes model it     *)
(* delegates to follows section 4.2 of the specification                   *)
(***************************************************************************)
MulFx(a, b) == (a * b) \div One

\* ln(a / b), by the first term of its area-tangent series
LnFx(a, b) == (2 * One * (a - b)) \div (a + b)

\* the standard normal distribution function and density, linearised
NormCdf(x) == Max(0, Min(One, 500 + (341 * x) \div One))
NormPdf(x) == Max(0, 399 - (199 * ((x * x) \div One)) \div One)

\* sigma * sqrt(T)
VolSqrtT(o) == MulFx(o.sigma, SqrtFx(YearsFx(o.T)))

BlackScholesD1(o) ==
    ((LnFx(o.S, o.K)
      + MulFx(o.r - o.q + (o.sigma * o.sigma) \div (2 * One), YearsFx(o.T))) * One)
    \div VolSqrtT(o)

BlackScholesD2(o) == BlackScholesD1(o) - VolSqrtT(o)

BlackScholesCall(o) ==
    MulFx(MulFx(o.S, DiscountT(o.q, o.T)), NormCdf(BlackScholesD1(o)))
    - MulFx(MulFx(o.K, DiscountT(o.r, o.T)), NormCdf(BlackScholesD2(o)))

BlackScholesPut(o) ==
    MulFx(MulFx(o.K, DiscountT(o.r, o.T)), NormCdf(0 - BlackScholesD2(o)))
    - MulFx(MulFx(o.S, DiscountT(o.q, o.T)), NormCdf(0 - BlackScholesD1(o)))

EuropeanPrice(o) ==
    IF o.option_type = "call" THEN BlackScholesCall(o) ELSE BlackScholesPut(o)

EuropeanDelta(o) ==
    IF o.option_type = "call"
    THEN MulFx(NormCdf(BlackScholesD1(o)), DiscountT(o.q, o.T))
    ELSE MulFx(NormCdf(BlackScholesD1(o)) - One, DiscountT(o.q, o.T))

EuropeanGamma(o) ==
    IF o.T <= 0 THEN 0
    ELSE (MulFx(NormPdf(BlackScholesD1(o)), DiscountT(o.q, o.T)) * One)
         \div (o.S * VolSqrtT(o))

EuropeanVega(o) ==
    IF o.T <= 0 THEN 0
    ELSE MulFx(MulFx(MulFx(o.S, NormPdf(BlackScholesD1(o))), SqrtFx(YearsFx(o.T))),
               DiscountT(o.q, o.T))

EuropeanTheta(o) ==
    IF o.T <= 0 THEN 0
    ELSE LET decay == (MulFx(MulFx(MulFx(o.S, NormPdf(BlackScholesD1(o))), o.sigma),
                             DiscountT(o.q, o.T)) * One)
                      \div (2 * SqrtFx(YearsFx(o.T)))
             carryK(d2) == MulFx(MulFx(MulFx(o.r, o.K), DiscountT(o.r, o.T)), NormCdf(d2))
             carryS(d1) == MulFx(MulFx(MulFx(o.q, o.S), DiscountT(o.q, o.T)), NormCdf(d1))
             theta == IF o.option_type = "call"
                      THEN (0 - decay) - carryK(BlackScholesD2(o)) + carryS(BlackScholesD1(o))
                      ELSE (0 - decay) + carryK(0 - BlackScholesD2(o))
                           - carryS(0 - BlackScholesD1(o))
         IN theta \div 365

EuropeanRho(o) ==
    IF o.T <= 0 THEN 0
    ELSE IF o.option_type = "call"
    THEN MulFx(MulFx(MulFx(o.K, YearsFx(o.T)), DiscountT(o.r, o.T)),
               NormCdf(BlackScholesD2(o)))
    ELSE 0 - MulFx(MulFx(MulFx(o.K, YearsFx(o.T)), DiscountT(o.r, o.T)),
                   NormCdf(0 - BlackScholesD2(o)))

EuropeanGetAllGreeks(o) ==
    [delta |-> EuropeanDelta(o), gamma |-> EuropeanGamma(o), vega |-> EuropeanVega(o),
     theta |-> EuropeanTheta(o), rho |-> EuropeanRho(o)]

(***************************************************************************)
(* Calls on options constructed directly                                   *)
(***************************************************************************)
AmericanPut ==
    NewOption("american", 60, 65, 730, 50, 300, 0, "put", "arithmetic", "none", 0)
AsianCall ==
    NewOption("asian", 60, 40, 730, 50, 300, 0, "CALL", "arithmetic", "none", 0)
BarrierCall ==
    NewOption("barrier", 60, 50, 730, 50, 300, 0, "call", "arithmetic", "up-and-out", 70)

\* an option with the engine its constructor builds
Scenario(o, n, m, seed) == [opt |-> o, eng |-> NewEngineObj(n, m, seed)]

\* options that satisfy the validation rules
ValidScenarios ==
    { Scenario(AmericanPut, 3, 3, 42),
      Scenario([AmericanPut EXCEPT !.option_type = "call", !.K = 55, !.q = 20], 2, 2, 7),
      Scenario([AmericanPut EXCEPT !.T = 0], 2, 2, 42),
      Scenario([AmericanPut EXCEPT !.S = 30, !.K = 35], 2, 2, 42),
      Scenario([AmericanPut EXCEPT !.sigma = 10], 2, 2, 7),
      Scenario(AsianCall, 2, 2, 42),
      Scenario([AsianCall EXCEPT !.option_type = "put", !.average_type = "geometric",
                                 !.K = 65], 3, 2, 7),
      Scenario(BarrierCall, 3, 2, 42),
      Scenario([BarrierCall EXCEPT !.barrier_type = "up-and-in"], 3, 2, 42),
      Scenario([BarrierCall EXCEPT !.barrier_type = "down-and-out", !.barrier_level = 35,
                                   !.option_type = "put", !.K = 65], 3, 2, 7),
      Scenario([BarrierCall EXCEPT !.barrier_type = "down-and-in", !.barrier_level = 50,
                                   !.option_type = "put", !.K = 65], 3, 2, 7) }

\* options only a direct constructor call can build
InvalidScenarios ==
    { Scenario([AmericanPut EXCEPT !.sigma = 0], 2, 2, 42),
      Scenario([AmericanPut EXCEPT !.K = 0, !.option_type = "call"], 2, 2, 42),
      Scenario([AsianCall EXCEPT !.sigma = 0 - 300], 2, 2, 42),
      Scenario([AsianCall EXCEPT !.S = 0, !.option_type = "put"], 2, 2, 42),
      Scenario([BarrierCall EXCEPT !.barrier_type = "knockout"], 3, 2, 42),
      Scenario([BarrierCall EXCEPT !.barrier_type = "sideways", !.barrier_level = 50], 3, 2, 42) }

OptionOps == {"price", "delta", "gamma", "vega", "rho", "theta", "get_all_greeks"}

\* a call on option i returned res
OptionReturn(i, op, res) ==
    /\ rng' = [rng EXCEPT ![RngSlot(i)] = res.rng]
    /\ gen' = IF res.log = <<>> THEN gen
              ELSE [gen EXCEPT ![i] = [via |-> "reset", used |-> FALSE, calls |-> 1]]
    /\ last' = [op |-> op, inst |-> i, outcome |-> "returned", value |-> res.value,
                log |-> res.log, start |-> rng[RngSlot(i)]]
    /\ UNCHANGED <<engine, option, snap, calc>>

\* a method EuropeanOption overrides with a closed form: it calls nothing on
\* self.mc_engine
ClosedFormAfterReset(value, g) ==
    [value |-> value, rng |-> DefaultRng(g.seed), log |-> <<LogReset>>]
ClosedForm(value, g) == [value |-> value, rng |-> g, log |-> <<>>]

\* option.<op>() by the class of the option: EuropeanOption defines all seven
\* methods, the other classes define price and theta and inherit the rest
\* from Option
Method(op, o, e, g) ==
    IF o.style = "european"
    THEN CASE op = "price" -> ClosedForm(EuropeanPrice(o), g)
           [] op = "delta" -> ClosedForm(EuropeanDelta(o), g)
           [] op = "gamma" -> ClosedForm(EuropeanGamma(o), g)
           [] op = "vega" -> ClosedForm(EuropeanVega(o), g)
           [] op = "rho" -> ClosedForm(EuropeanRho(o), g)
           [] op = "theta" -> ClosedForm(EuropeanTheta(o), g)
           [] op = "get_all_greeks" -> ClosedForm(EuropeanGetAllGreeks(o), g)
    ELSE CASE op = "price" -> Price(o, e, g)
           [] op = "delta" -> Delta(o, e, g, DeltaBump)
           [] op = "gamma" -> Gamma(o, e, g, GammaBump)
           [] op = "vega" -> Vega(o, e, g, VegaBump)
           [] op = "rho" -> Rho(o, e, g, RhoBump)
           [] op = "theta" -> Theta(o, e, g, ThetaBump)
           [] op = "get_all_greeks" -> GetAllGreeks(o, e, g)

PriceCall(i) ==
    /\ option[i] # None
    /\ \E res \in {Method("price", option[i], engine[i], rng[RngSlot(i)])} :
          OptionReturn(i, "price", res)

DeltaCall(i) ==
    /\ option[i] # None
    /\ \E res \in {Method("delta", option[i], engine[i], rng[RngSlot(i)])} :
          OptionReturn(i, "delta", res)

GammaCall(i) ==
    /\ option[i] # None
    /\ \E res \in {Method("gamma", option[i], engine[i], rng[RngSlot(i)])} :
          OptionReturn(i, "gamma", res)

VegaCall(i) ==
    /\ option[i] # None
    /\ \E res \in {Method("vega", option[i], engine[i], rng[RngSlot(i)])} :
          OptionReturn(i, "vega", res)

RhoCall(i) ==
    /\ option[i] # None
    /\ \E res \in {Method("rho", option[i], engine[i], rng[RngSlot(i)])} :
          OptionReturn(i, "rho", res)

ThetaCall(i) ==
    /\ option[i] # None
    /\ \E res \in {Method("theta", option[i], engine[i], rng[RngSlot(i)])} :
          OptionReturn(i, "theta", res)

GetAllGreeksCall(i) ==
    /\ option[i] # None
    /\ \E res \in {Method("get_all_greeks", option[i], engine[i], rng[RngSlot(i)])} :
          OptionReturn(i, "get_all_greeks", res)

\* option i .mc_engine.simulate_paths(...) with the option's own parameters
EngineSimulateCall(i) ==
    /\ option[i] # None
    /\ SimulatePathsCall(i, [S0 |-> option[i].S, T |-> option[i].T, r |-> option[i].r,
                             sigma |-> option[i].sigma, q |-> option[i].q])
    /\ snap' = snap

\* the calls on the option (and on its engine) of instance i
OptionStep(i) ==
    \/ PriceCall(i)
    \/ DeltaCall(i)
    \/ GammaCall(i)
    \/ VegaCall(i)
    \/ RhoCall(i)
    \/ ThetaCall(i)
    \/ GetAllGreeksCall(i)
    \/ EngineSimulateCall(i)
    \/ ResetRngCall(i)

\* one option, constructed directly from any scenario
InitOption ==
    /\ \E s1 \in ValidScenarios \cup InvalidScenarios :
          /\ option = <<s1.opt, None>>
          /\ engine = <<s1.eng, NewEngineObj(1, 1, 42)>>
    /\ rng = [i \in Inst |-> DefaultRng(engine[i].seed)]
    /\ gen = [i \in Inst |-> GenNew]
    /\ last = None
    /\ snap = None
    /\ calc = None

NextOption == OptionStep(1)

SpecOption == InitOption /\ [][NextOption]_vars

\* the positions of the simulate_paths calls in the call log of the last call
SimCalls == {k \in 1..Len(last.log) : last.log[k].call = "simulate_paths"}

\* the arguments of a logged simulate_paths call other than the one a Greek bumps
Unbumped(op, c) ==
    CASE op \in {"delta", "gamma"} -> <<c.T, c.r, c.sigma, c.q>>
      [] op = "vega" -> <<c.S0, c.T, c.r, c.q>>
      [] op = "rho" -> <<c.S0, c.T, c.sigma, c.q>>

(***************************************************************************)
(* C3: in delta, gamma, vega and rho of the base Option every              *)
(* simulate_paths call comes right after a reset_rng call, so the two      *)
(* (for gamma three) simulations start from the first draw of the seed's   *)
(* stream and differ only in the bumped parameter, whatever was called on  *)
(* the option before.                                                      *)
(***************************************************************************)
C3_GreeksResetBeforeEverySimulation ==
    last.op \in {"delta", "gamma", "vega", "rho"} =>
        /\ Cardinality(SimCalls) = IF last.op = "gamma" THEN 3 ELSE 2
        /\ \A k \in SimCalls :
              /\ k > 1
              /\ last.log[k - 1].call = "reset_rng"
              /\ last.log[k].start = DefaultRng(engine[last.inst].seed)
        /\ \A j, k \in SimCalls :
              Unbumped(last.op, last.log[j]) = Unbumped(last.op, last.log[k])

\* gamma called on an option whose generator had served two simulations
C3_Witness ==
    /\ last.op = "gamma"
    /\ last.start.pos = 2 * engine[last.inst].num_simulations * engine[last.inst].num_steps
    /\ {last.log[k].S0 : k \in SimCalls} = {10, 60, 110}
    /\ last.value # 0

(***************************************************************************)
(* C4: price() of an American, Asian or Barrier option returns on every    *)
(* call the value its first call on the new option returns, whatever was   *)
(* called on the option and its engine in between.                         *)
(***************************************************************************)
C4_PriceRepeats ==
    last.op = "price" =>
        last.value = Price(option[last.inst], engine[last.inst],
                           DefaultRng(engine[last.inst].seed)).value

\* a nonzero barrier price returned by a generator that other calls had advanced
C4_Witness ==
    /\ last.op = "price"
    /\ option[last.inst].style = "barrier"
    /\ last.start.pos = 2 * engine[last.inst].num_simulations * engine[last.inst].num_steps
    /\ last.value > 0

\* valid_types of validate_barrier_params
KnownBarrierKinds == {"up-and-out", "up-and-in", "down-and-out", "down-and-in"}

\* a constructor argument breaks an invariant of the option
ViolatesInvariant(o) ==
    \/ o.sigma <= 0
    \/ o.S <= 0
    \/ o.K <= 0
    \/ o.T < 0
    \/ (o.style = "barrier" /\ o.barrier_type \notin KnownBarrierKinds)

(***************************************************************************)
(* C10: price() and the Greeks of an option constructed directly with a    *)
(* violated invariant (sigma <= 0, S <= 0, K <= 0, T < 0, unknown barrier  *)
(* kind) raise an error: they return no value and simulate nothing.        *)
(***************************************************************************)
C10_InvalidOptionFailsFast ==
    (last.op \in OptionOps /\ ViolatesInvariant(option[last.inst])) =>
        (last.outcome = "raised" /\ SimCalls = {})

\* two options side by side, in any interleaving of their calls
PairScenarios ==
    { Scenario(AmericanPut, 2, 2, 42), Scenario(BarrierCall, 2, 1, 7) }

InitPair ==
    /\ \E s1 \in PairScenarios, s2 \in PairScenarios :
          /\ option = <<s1.opt, s2.opt>>
          /\ engine = <<s1.eng, s2.eng>>
    /\ rng = [i \in Inst |-> DefaultRng(engine[i].seed)]
    /\ gen = [i \in Inst |-> GenNew]
    /\ last = None
    /\ snap = None
    /\ calc = None

NextPair == \E i \in Inst : OptionStep(i)

SpecPair == InitPair /\ [][NextPair]_vars

\* the generator state the own calls of instance i account for
OwnRng(i) ==
    [seed |-> engine[i].seed,
     pos |-> gen[i].calls * engine[i].num_simulations * engine[i].num_steps]

(***************************************************************************)
(* C5: each instance owns its generator: a call on one option or engine    *)
(* leaves the generator, the engine and the option of the other instance   *)
(* unchanged, and every simulate_paths call returns the paths its own      *)
(* instance's history determines, in any interleaving of the calls on the  *)
(* two instances.                                                          *)
(***************************************************************************)
C5_InstancesIsolated ==
    [][ /\ \A j \in Inst :
              last'.inst # j =>
                  /\ rng'[j] = rng[j]
                  /\ engine'[j] = engine[j]
                  /\ option'[j] = option[j]
        /\ last'.op = "simulate_paths" =>
              last'.paths = SimulatePaths(engine[last'.inst], OwnRng(last'.inst),
                                          last'.args.S0, last'.args.T, last'.args.r,
                                          last'.args.sigma, last'.args.q).paths
      ]_vars

\* instance 1 prices after instance 2 has advanced its own generator twice
C5_Witness ==
    /\ last.op = "price"
    /\ last.inst = 1
    /\ last.start.pos > 0
    /\ gen[2].calls = 2
    /\ rng[2].pos = 2 * engine[2].num_simulations * engine[2].num_steps
    /\ rng[1].seed # rng[2].seed

\* the first simulate_paths call of a newly constructed engine like e
FreshEnginePaths(e, a) ==
    SimulatePaths(e, DefaultRng(e.seed), a.S0, a.T, a.r, a.sigma, a.q).paths

\* the remembered call had the same (seed, N, M) and arguments as the last one
SameCallAsSnap ==
    /\ last.op = "simulate_paths"
    /\ snap.op = "simulate_paths"
    /\ snap.engine = engine[last.inst]
    /\ snap.args = last.args

(***************************************************************************)
(* C1 as stated: any two simulate_paths calls with identical               *)
(* (seed, N, M, S0, T, r, sigma, q) return identical arrays, whatever was  *)
(* called on the engines before.                                           *)
(***************************************************************************)
C1_AnyTwoCallsAgree == SameCallAsSnap => last.paths = snap.paths

(***************************************************************************)
(* C1 amended: two simulate_paths calls with identical                     *)
(* (seed, N, M, S0, T, r, sigma, q) return identical arrays when each is   *)
(* the first call after the engine was constructed or reset_rng() was      *)
(* called, whatever was called on the engines before that.                 *)
(***************************************************************************)
C1_FreshCallsAgree ==
    (SameCallAsSnap /\ last.gen.calls = 0) => last.paths = snap.paths

\* a remembered first call and a later first call after a reset that
\* discarded draws, same key, two-step paths
C1_Witness ==
    /\ SameCallAsSnap
    /\ last.gen.calls = 0
    /\ last.gen.used
    /\ engine[last.inst].num_steps = 2
    /\ last.paths = snap.paths
    /\ \E i \in 1..Len(last.paths) : last.paths[i][3] # last.paths[i][1]

(***************************************************************************)
(* C2: reset_rng() leaves the generator as on a newly constructed engine   *)
(* with the same seed, and the simulate_paths call that follows returns    *)
(* what the first call of such an engine returns, however many draws were  *)
(* consumed before the reset.                                              *)
(***************************************************************************)
C2_ResetRestoresStream ==
    /\ last.op = "reset_rng" =>
           rng[RngSlot(last.inst)] = DefaultRng(engine[last.inst].seed)
    /\ (last.op = "simulate_paths" /\ last.gen.via = "reset" /\ last.gen.calls = 0) =>
           last.paths = FreshEnginePaths(engine[last.inst], last.args)

\* a first call after a reset that discarded two calls' worth of draws
C2_Witness ==
    /\ last.op = "simulate_paths"
    /\ last.gen.via = "reset"
    /\ last.gen.calls = 0
    /\ last.gen.used
    /\ engine[last.inst].num_simulations = 2
    /\ last.paths[1] # last.paths[2]

(***************************************************************************)
(* C6: every array simulate_paths returns has N rows of M + 1 columns and  *)
(* S0 in column 0 of every row, in every generator state.                  *)
(***************************************************************************)
C6_ShapeAndFirstColumn ==
    last.op = "simulate_paths" =>
        /\ Len(last.paths) = engine[last.inst].num_simulations
        /\ \A i \in 1..Len(last.paths) :
              /\ Len(last.paths[i]) = engine[last.inst].num_steps + 1
              /\ last.paths[i][1] = last.args.S0

\* a 2 x 3 array returned by a generator that had already served a call
C6_Witness ==
    /\ last.op = "simulate_paths"
    /\ last.gen.calls = 1
    /\ Len(last.paths) = 2
    /\ Len(last.paths[1]) = 3
    /\ last.paths[1][1] = 1005
    /\ last.paths[1][3] # 1005

(***************************************************************************)
(* The validators (utils/validators.py)                                    *)
(***************************************************************************)
\* float('nan'): a float that every comparison answers False for
NaN == 0 - 999999

Le(x, y) == x # NaN /\ y # NaN /\ x <= y
Lt(x, y) == x # NaN /\ y # NaN /\ x < y
Ge(x, y) == x # NaN /\ y # NaN /\ x >= y

\* errors.append(msg) under a condition
ErrorIf(cond, msg) == IF cond THEN <<msg>> ELSE <<>>

\* the message is the list of its entries, which the code joins with "; "
Valid == [is_valid |-> TRUE, error_msg |-> <<>>]
Invalid(entries) == [is_valid |-> FALSE, error_msg |-> entries]

ValidateOptionParams(S, K, T, r, sigma, q) ==
    LET errors == ErrorIf(Le(S, 0), "Underlying price must be positive")
                  \o ErrorIf(Le(K, 0), "Strike price must be positive")
                  \o ErrorIf(Lt(T, 0), "TTM must be positive")
                  \o ErrorIf(Le(sigma, 0), "Volatility must be positive")
                  \o ErrorIf(Lt(q, 0), "Dividend yield must be positive")
    IN IF errors # <<>> THEN Invalid(errors) ELSE Valid

ValidateBarrierParams(barrier_type, barrier_level, S) ==
    IF Lower(barrier_type) \notin KnownBarrierKinds
    THEN Invalid(<<"Invalid barrier_type. Must be one of: up-and-out, up-and-in, down-and-out, down-and-in">>)
    ELSE IF Le(barrier_level, 0)
    THEN Invalid(<<"Barrier level must be positive">>)
    ELSE IF HasUp(Lower(barrier_type)) /\ Le(barrier_level, S)
    THEN Invalid(<<"For up-barriers, barrier level must be > stock price">>)
    ELSE IF HasDown(Lower(barrier_type)) /\ Ge(barrier_level, S)
    THEN Invalid(<<"For down-barriers, barrier level must be < stock price">>)
    ELSE Valid

ValidateAsianParams(average_type) ==
    IF Lower(average_type) \notin {"arithmetic", "geometric"}
    THEN Invalid(<<"Invalid average_type. Must be one of: arithmetic, geometric">>)
    ELSE Valid

(***************************************************************************)
(* The facade (calculator.py)                                              *)
(***************************************************************************)
\* the outcomes of create_option
Raised(prefix, entries) ==
    [outcome |-> "ValueError", prefix |-> prefix, entries |-> entries]
Built(o, e) == [outcome |-> "returned", opt |-> o, eng |-> e]

\* create_option, up to the assignment of self.option
CreateOptionResult(config) ==
    LET S == config.underlying_price
        K == config.strike_price
        T == config.time_to_maturity
        r == config.risk_free_rate
        sigma == config.volatility
        q == config.dividend_yield
        option_type == Lower(config.option_type)
        option_style == Lower(config.option_style)
        base == ValidateOptionParams(S, K, T, r, sigma, q)
        num_simulations == config.num_simulations
        num_steps == config.num_steps
        seed == config.seed
        asian == ValidateAsianParams(config.average_type)
        barrier_type == Lower(config.barrier_type)
        barrier_level == config.barrier_level
        barrier == ValidateBarrierParams(barrier_type, barrier_level, S)
    IN IF ~base.is_valid THEN Raised("Invalid parameters", base.error_msg)
       ELSE CASE option_style = "european" ->
                    Built(NewOption("european", S, K, T, r, sigma, q, option_type,
                                    "none", "none", 0),
                          NewEngineObj(10000, 252, 42))
              [] option_style = "american" ->
                    Built(NewOption("american", S, K, T, r, sigma, q, option_type,
                                    "none", "none", 0),
                          NewEngineObj(num_simulations, num_steps, seed))
              [] option_style = "asian" ->
                    IF ~asian.is_valid
                    THEN Raised("Invalid Asian option parameters", asian.error_msg)
                    ELSE Built(NewOption("asian", S, K, T, r, sigma, q, option_type,
                                         config.average_type, "none", 0),
                               NewEngineObj(num_simulations, num_steps, seed))
              [] option_style = "barrier" ->
                    IF ~barrier.is_valid
                    THEN Raised("Invalid barrier option parameters", barrier.error_msg)
                    ELSE Built(NewOption("barrier", S, K, T, r, sigma, q, option_type,
                                         "none", barrier_type, barrier_level),
                               NewEngineObj(num_simulations, num_steps, seed))
              [] OTHER -> Raised("Invalid option style", <<option_style>>)

\* a NaN spot fills every path cell, payoff and mean with NaN; the draws are
\* consumed all the same
NaNGreeks == [delta |-> NaN, gamma |-> NaN, vega |-> NaN, theta |-> NaN, rho |-> NaN]
NaNRun(e) ==
    Advance(DefaultRng(e.seed), e.num_simulations * e.num_steps)

\* a call the option makes on its engine ends in an exception: dt = T /
\* self.num_steps divides by zero after the generator was reset
ZeroSteps(o, e) == o.style # "european" /\ e.num_steps = 0
DividesByZero(e, g) == [outcome |-> "ZeroDivisionError", rng |-> ResetRng(e, g)]
Returned(value, g) == [outcome |-> "returned", value |-> value, rng |-> g]

\* self.option.price()
OptionPrice(o, e, g) ==
    CASE o.style = "european" -> Returned(EuropeanPrice(o), g)
      [] ZeroSteps(o, e) -> DividesByZero(e, g)
      [] o.S = NaN -> Returned(NaN, NaNRun(e))
      [] OTHER -> Only({Returned(res.value, res.rng) : res \in {Price(o, e, g)}})

\* self.option.get_all_greeks()
OptionGreeks(o, e, g) ==
    CASE o.style = "european" -> Returned(EuropeanGetAllGreeks(o), g)
      [] ZeroSteps(o, e) -> DividesByZero(e, g)
      [] o.S = NaN -> Returned(NaNGreeks, NaNRun(e))
      [] OTHER -> Only({Returned(res.value, res.rng) : res \in {GetAllGreeks(o, e, g)}})

NoGreeks == [delta |-> "None"]
NoResults == [price |-> "none"]

\* OptionCalculator(config)
NewCalculator(config) == [config |-> config, results |-> NoResults]

\* what a facade call leaves in last
FacadeReturn(op, config, held, value) ==
    [op |-> op, inst |-> 1, outcome |-> "returned", config |-> config, held |-> held,
     value |-> value]
FacadeRaise(op, config, held, c) ==
    [op |-> op, inst |-> 1, outcome |-> c.outcome, config |-> config, held |-> held,
     prefix |-> c.prefix, entries |-> c.entries]

\* the calculator now holds the option o with its engine e and generator g
Holds(o, e, g) ==
    /\ option' = [option EXCEPT ![1] = o]
    /\ engine' = [engine EXCEPT ![1] = e]
    /\ rng' = [rng EXCEPT ![RngSlot(1)] = g]

\* calculator.create_option()
CreateOption ==
    /\ calc # None
    /\ \E c \in {CreateOptionResult(calc.config)} :
          IF c.outcome = "returned"
          THEN /\ Holds(c.opt, c.eng, DefaultRng(c.eng.seed))
               /\ last' = FacadeReturn("create_option", calc.config, option[1], c.opt)
          ELSE /\ last' = FacadeRaise("create_option", calc.config, option[1], c)
               /\ UNCHANGED <<option, engine, rng>>
    /\ UNCHANGED <<calc, gen, snap>>

\* what an exception of the option's own code leaves in last
Failed(res) == [outcome |-> res.outcome, prefix |-> "", entries |-> <<>>]

\* calculate(compute_greeks) that assigns self.results before it prices
CalculateOnStoresFirst(op, k, o, e, g, compute_greeks) ==
    \E c \in {IF o = None THEN CreateOptionResult(k.config) ELSE Built(o, e)} :
       IF c.outcome # "returned"
       THEN /\ last' = FacadeRaise(op, k.config, o, c)
            /\ calc' = k
            /\ Holds(o, e, g)
       ELSE \E price \in {OptionPrice(c.opt, c.eng,
                                      IF o = None THEN DefaultRng(c.eng.seed) ELSE g)} :
            \E greeks \in {CASE price.outcome # "returned" -> price
                             [] compute_greeks -> OptionGreeks(c.opt, c.eng, price.rng)
                             [] OTHER -> Returned(NoGreeks, price.rng)} :
               IF greeks.outcome # "returned"
               THEN /\ last' = FacadeRaise(op, k.config, o, Failed(greeks))
                    /\ calc' = [k EXCEPT !.results = [price |-> 0, greeks |-> NoGreeks,
                                                      parameters |-> k.config]]
                    /\ Holds(c.opt, c.eng, greeks.rng)
               ELSE \E results \in {[price |-> price.value, greeks |-> greeks.value,
                                     parameters |-> k.config]} :
                       /\ calc' = [k EXCEPT !.results = results]
                       /\ Holds(c.opt, c.eng, greeks.rng)
                       /\ last' = FacadeReturn(op, k.config, o, results)

\* calculate(compute_greeks) of the calculator k that holds option o (or none)
\* with engine e and generator g
CalculateOn(op, k, o, e, g, compute_greeks) ==
    \E c \in {IF o = None THEN CreateOptionResult(k.config) ELSE Built(o, e)} :
       IF c.outcome # "returned"
       THEN /\ last' = FacadeRaise(op, k.config, o, c)
            /\ calc' = k
            /\ Holds(o, e, g)
       ELSE \E price \in {OptionPrice(c.opt, c.eng,
                                      IF o = None THEN DefaultRng(c.eng.seed) ELSE g)} :
            \E greeks \in {CASE price.outcome # "returned" -> price
                             [] compute_greeks -> OptionGreeks(c.opt, c.eng, price.rng)
                             [] OTHER -> Returned(NoGreeks, price.rng)} :
               IF greeks.outcome # "returned"
               THEN /\ last' = FacadeRaise(op, k.config, o, Failed(greeks))
                    /\ calc' = k
                    /\ Holds(c.opt, c.eng, greeks.rng)
               ELSE \E results \in {[price |-> price.value, greeks |-> greeks.value,
                                     parameters |-> k.config]} :
                       /\ calc' = [k EXCEPT !.results = results]
                       /\ Holds(c.opt, c.eng, greeks.rng)
                       /\ last' = FacadeReturn(op, k.config, o, results)

\* calculator.calculate(compute_greeks)
Calculate(compute_greeks) ==
    /\ calc # None
    /\ CalculateOn("calculate", calc, option[1], engine[1], rng[RngSlot(1)],
                   compute_greeks)
    /\ UNCHANGED <<gen, snap>>

\* calculate_from_config(config, compute_greeks): a new calculator per call
CalculateFromConfig(config, compute_greeks) ==
    /\ CalculateOn("calculate_from_config", NewCalculator(config), None,
                   NewEngineObj(1, 1, 42), DefaultRng(42), compute_greeks)
    /\ UNCHANGED <<gen, snap>>

\* calculator.config = config
SetConfig(config) ==
    /\ calc # None
    /\ calc' = [calc EXCEPT !.config = config]
    /\ last' = [op |-> "set_config", inst |-> 1]
    /\ UNCHANGED <<engine, rng, gen, snap, option>>

\* calculator.get_results()
GetResults ==
    /\ calc # None
    /\ last' = [op |-> "get_results", inst |-> 1, outcome |-> "returned",
                value |-> calc.results]
    /\ UNCHANGED <<engine, rng, gen, snap, option, calc>>

(***************************************************************************)
(* Requests through the facade                                             *)
(***************************************************************************)
\* a configuration dictionary; a key the style does not read holds "none"
AmericanConfig ==
    [option_style |-> "American", option_type |-> "Put", underlying_price |-> 60,
     strike_price |-> 65, time_to_maturity |-> 730, risk_free_rate |-> 50,
     volatility |-> 300, dividend_yield |-> 0, average_type |-> "none",
     barrier_type |-> "none", barrier_level |-> 0, num_simulations |-> 2,
     num_steps |-> 2, seed |-> 42]

EuropeanConfig ==
    [AmericanConfig EXCEPT !.option_style = "european", !.option_type = "call",
                           !.strike_price = 55]

AsianConfig ==
    [AmericanConfig EXCEPT !.option_style = "asian", !.option_type = "CALL",
                           !.strike_price = 40, !.average_type = "Arithmetic"]

BarrierConfig ==
    [AmericanConfig EXCEPT !.option_style = "Barrier", !.option_type = "call",
                           !.strike_price = 50, !.barrier_type = "Up-And-Out",
                           !.barrier_level = 100, !.seed = 7]

ValidConfigs ==
    { AmericanConfig, EuropeanConfig, AsianConfig, BarrierConfig,
      [BarrierConfig EXCEPT !.option_type = "Put", !.strike_price = 65,
                            !.barrier_type = "down-and-in", !.barrier_level = 50] }

InvalidConfigs ==
    { [AmericanConfig EXCEPT !.underlying_price = 0, !.volatility = 0],
      [AmericanConfig EXCEPT !.time_to_maturity = 0 - 730, !.dividend_yield = 0 - 10],
      [AmericanConfig EXCEPT !.underlying_price = NaN],
      [AmericanConfig EXCEPT !.option_style = "binary"],
      [AmericanConfig EXCEPT !.option_style = "binary", !.strike_price = 0],
      [AsianConfig EXCEPT !.average_type = "harmonic"],
      [BarrierConfig EXCEPT !.barrier_type = "sideways"],
      [BarrierConfig EXCEPT !.barrier_type = "sideways", !.barrier_level = 0 - 5],
      [BarrierConfig EXCEPT !.barrier_level = 50],
      [BarrierConfig EXCEPT !.barrier_level = 0],
      [BarrierConfig EXCEPT !.barrier_type = "down-and-out", !.barrier_level = 60],
      [BarrierConfig EXCEPT !.underlying_price = 0 - 60, !.barrier_level = 0 - 5] }

\* accepted by the validators, but the engine cannot price it
ZeroStepConfig == [AmericanConfig EXCEPT !.num_steps = 0]

\* accepted by the validators, which do not look at option_type
StraddleConfig == [AmericanConfig EXCEPT !.option_type = "Straddle"]

Configs == ValidConfigs \cup InvalidConfigs \cup {ZeroStepConfig, StraddleConfig}

\* the configurations a caller assigns to an existing calculator
ConfigChanges ==
    { AsianConfig, ZeroStepConfig,
      [AmericanConfig EXCEPT !.option_style = "binary"],
      [BarrierConfig EXCEPT !.barrier_type = "sideways"],
      [AmericanConfig EXCEPT !.underlying_price = 0, !.volatility = 0] }

\* the engine slot of a calculator that holds no option
NoEngine == NewEngineObj(1, 1, 42)

InitFacade ==
    /\ calc \in {NewCalculator(c) : c \in Configs}
    /\ option = [i \in Inst |-> None]
    /\ engine = [i \in Inst |-> NoEngine]
    /\ rng = [i \in Inst |-> DefaultRng(engine[i].seed)]
    /\ gen = [i \in Inst |-> GenNew]
    /\ last = None
    /\ snap = None

NextFacade ==
    \/ \E c \in ConfigChanges : SetConfig(c)
    \/ CreateOption
    \/ \E b \in BOOLEAN : Calculate(b)
    \/ \E c \in Configs, b \in BOOLEAN : CalculateFromConfig(c, b)
    \/ GetResults

SpecFacade == InitFacade /\ [][NextFacade]_vars

\* the calls that run create_option on a configuration
CreatingOps == {"create_option", "calculate", "calculate_from_config"}

\* the validation rules, read as conditions on real numbers
BaseRulesHold(c) ==
    /\ c.underlying_price # NaN /\ c.underlying_price > 0
    /\ c.strike_price # NaN /\ c.strike_price > 0
    /\ c.time_to_maturity # NaN /\ c.time_to_maturity >= 0
    /\ c.volatility # NaN /\ c.volatility > 0
    /\ c.dividend_yield # NaN /\ c.dividend_yield >= 0

BarrierRulesHold(c) ==
    /\ Lower(c.barrier_type) \in KnownBarrierKinds
    /\ c.barrier_level > 0
    /\ Lower(c.barrier_type) \in {"up-and-out", "up-and-in"}
          => c.barrier_level > c.underlying_price
    /\ Lower(c.barrier_type) \in {"down-and-out", "down-and-in"}
          => c.barrier_level < c.underlying_price

RulesHold(c) ==
    /\ BaseRulesHold(c)
    /\ Lower(c.option_style) \in {"european", "american", "asian", "barrier"}
    /\ Lower(c.option_style) = "barrier" => BarrierRulesHold(c)
    /\ Lower(c.option_style) = "asian"
          => Lower(c.average_type) \in {"arithmetic", "geometric"}

(***************************************************************************)
(* C7: create_option constructs an option only when every validation rule  *)
(* holds of the configuration; when a rule is violated it raises           *)
(* ValueError, constructs nothing and simulates nothing, and self.option   *)
(* is what it was before the call.                                         *)
(***************************************************************************)
C7_ConstructsOnlyValidOptions ==
    [][ (last'.op = "create_option" /\ ~RulesHold(last'.config)) =>
            /\ last'.outcome = "ValueError"
            /\ option' = option
            /\ rng' = rng
      ]_vars

\* the entries the message of an invalid-parameter failure should hold: one
\* for each violated precondition on the base and on the barrier parameters
ViolatedEntries(c) ==
    {m \in {"Underlying price must be positive"} : ~(c.underlying_price > 0)}
    \cup {m \in {"Strike price must be positive"} : ~(c.strike_price > 0)}
    \cup {m \in {"TTM must be positive"} : ~(c.time_to_maturity >= 0)}
    \cup {m \in {"Volatility must be positive"} : ~(c.volatility > 0)}
    \cup {m \in {"Dividend yield must be positive"} : ~(c.dividend_yield >= 0)}
    \cup IF Lower(c.option_style) # "barrier" THEN {}
         ELSE {m \in {"Invalid barrier_type. Must be one of: up-and-out, up-and-in, down-and-out, down-and-in"} :
                  Lower(c.barrier_type) \notin KnownBarrierKinds}
              \cup {m \in {"Barrier level must be positive"} : ~(c.barrier_level > 0)}
              \cup {m \in {"For up-barriers, barrier level must be > stock price"} :
                       /\ Lower(c.barrier_type) \in {"up-and-out", "up-and-in"}
                       /\ ~(c.barrier_level > c.underlying_price)}
              \cup {m \in {"For down-barriers, barrier level must be < stock price"} :
                       /\ Lower(c.barrier_type) \in {"down-and-out", "down-and-in"}
                       /\ ~(c.barrier_level < c.underlying_price)}

(***************************************************************************)
(* C8: the message of an invalid-parameter failure has one entry for each  *)
(* violated precondition on the base parameters S, K, T, sigma, q and on   *)
(* the barrier parameters kind and level.                                  *)
(***************************************************************************)
C8_MessageNamesEveryViolation ==
    ( /\ last.op \in CreatingOps
      /\ last.outcome = "ValueError"
      /\ last.prefix \in {"Invalid parameters", "Invalid barrier option parameters"} )
    => {last.entries[k] : k \in 1..Len(last.entries)} = ViolatedEntries(last.config)

\* the configuration names a style or, for a barrier option, a kind that is
\* not supported
Unsupported(c) ==
    \/ Lower(c.option_style) \notin {"european", "american", "asian", "barrier"}
    \/ /\ Lower(c.option_style) = "barrier"
       /\ Lower(c.barrier_type) \notin KnownBarrierKinds

(***************************************************************************)
(* C9: a request through the facade whose option_style or (barrier)        *)
(* barrier_type is not supported ends in a raised error: no option is      *)
(* constructed and no price is returned.                                   *)
(***************************************************************************)
C9_UnsupportedAlwaysRaises ==
    (last.op \in CreatingOps /\ Unsupported(last.config)) =>
        (last.outcome = "ValueError" /\ option[1] = last.held)

(***************************************************************************)
(* C11: when calculate raises, whether in validation, on an unsupported    *)
(* style or while pricing, no result record is returned and the stored     *)
(* results are what they were before the call (those of a new calculator   *)
(* for calculate_from_config); the stored results change only in a call    *)
(* that returned, and then they are the record it returned.                *)
(***************************************************************************)
C11_ResultsBefore ==
    IF last'.op = "calculate_from_config" THEN NoResults ELSE calc.results

C11_RaisedCalculateKeepsResults ==
    [][ /\ (last'.op \in {"calculate", "calculate_from_config"} /\ last'.outcome # "returned")
            => calc'.results = C11_ResultsBefore
        /\ calc'.results # C11_ResultsBefore
            => /\ last'.op \in {"calculate", "calculate_from_config"}
               /\ last'.outcome = "returned"
               /\ last'.value = calc'.results
      ]_vars

\* calculate raised while pricing on a calculator that had stored a price
C11_Witness ==
    /\ last.op = "calculate"
    /\ last.outcome = "ZeroDivisionError"
    /\ calc.results # NoResults
    /\ calc.results.price > 0

(***************************************************************************)
(* European and simulated options side by side                             *)
(***************************************************************************)
EuropeanCall == NewOption("european", 60, 55, 730, 50, 300, 0, "call", "none", "none", 0)

\* EuropeanOption passes no seed to Option.__init__: its unused engine has
\* the default seed
StyleScenarios ==
    { Scenario(EuropeanCall, 2, 2, 42),
      Scenario([EuropeanCall EXCEPT !.option_type = "put", !.K = 65, !.q = 20], 2, 1, 42),
      Scenario(AmericanPut, 2, 2, 42),
      Scenario(AsianCall, 2, 2, 42),
      Scenario(BarrierCall, 2, 1, 7) }

InitStyles ==
    /\ \E s1 \in StyleScenarios :
          /\ option = <<s1.opt, None>>
          /\ engine = <<s1.eng, NewEngineObj(1, 1, 42)>>
    /\ rng = [i \in Inst |-> DefaultRng(engine[i].seed)]
    /\ gen = [i \in Inst |-> GenNew]
    /\ last = None
    /\ snap = None
    /\ calc = None

SpecStyles == InitStyles /\ [][NextOption]_vars

\* the closed-form value of a method of a European option
C12_ClosedForm(op, o) ==
    CASE op = "price" -> EuropeanPrice(o)
      [] op = "delta" -> EuropeanDelta(o)
      [] op = "gamma" -> EuropeanGamma(o)
      [] op = "vega" -> EuropeanVega(o)
      [] op = "rho" -> EuropeanRho(o)
      [] op = "theta" -> EuropeanTheta(o)
      [] op = "get_all_greeks" -> EuropeanGetAllGreeks(o)

\* the number of simulate_paths calls in the log of the call that just returned
C12_Simulations ==
    Cardinality({k \in 1..Len(last'.log) : last'.log[k].call = "simulate_paths"})

(***************************************************************************)
(* C12: price, delta, gamma, vega, theta, rho and get_all_greeks of a      *)
(* European option return the closed-form value, call neither              *)
(* simulate_paths nor reset_rng and leave the generator as it was; delta,  *)
(* gamma, vega and rho of every other style are the finite differences of  *)
(* the base Option, over two (gamma: three) simulations.                   *)
(***************************************************************************)
C12_EuropeanIsClosedForm ==
    [][ last'.op \in OptionOps =>
          IF option[1].style = "european"
          THEN /\ last'.log = <<>>
               /\ rng' = rng
               /\ last'.value = C12_ClosedForm(last'.op, option[1])
          ELSE last'.op \in {"delta", "gamma", "vega", "rho"} =>
                  /\ C12_Simulations = IF last'.op = "gamma" THEN 3 ELSE 2
                  /\ last'.value =
                        CASE last'.op = "delta" ->
                               Delta(option[1], engine[1], rng[1], DeltaBump).value
                          [] last'.op = "gamma" ->
                               Gamma(option[1], engine[1], rng[1], GammaBump).value
                          [] last'.op = "vega" ->
                               Vega(option[1], engine[1], rng[1], VegaBump).value
                          [] last'.op = "rho" ->
                               Rho(option[1], engine[1], rng[1], RhoBump).value
      ]_vars

\* all Greeks of a European option whose engine had simulated paths before:
\* the generator stays where that simulation left it
C12_Witness ==
    /\ option[1] # None
    /\ option[1].style = "european"
    /\ last.op = "get_all_greeks"
    /\ last.start.pos > 0
    /\ rng[1] = last.start
    /\ last.value.delta # 0
    /\ last.value.vega # 0

(***************************************************************************)
(* Barrier options over a grid of kinds and levels                         *)
(***************************************************************************)
BarrierLevels == {39, 60, 70, 74}

BarrierScenarios ==
    { Scenario([BarrierCall EXCEPT !.barrier_type = kind, !.barrier_level = B,
                                   !.option_type = side.option_type, !.K = side.K],
               3, 2, seed) :
        kind \in KnownBarrierKinds, B \in BarrierLevels, seed \in Seeds,
        side \in {[option_type |-> "call", K |-> 50], [option_type |-> "put", K |-> 65]} }

InitBarrier ==
    /\ \E s1 \in BarrierScenarios :
          /\ option = <<s1.opt, None>>
          /\ engine = <<s1.eng, NewEngineObj(1, 1, 42)>>
    /\ rng = [i \in Inst |-> DefaultRng(engine[i].seed)]
    /\ gen = [i \in Inst |-> GenNew]
    /\ last = None
    /\ snap = None
    /\ calc = None

SpecBarrier == InitBarrier /\ [][NextOption]_vars

\* the paths price() of option 1 simulates
C13_Paths ==
    SimulatePaths(engine[1], DefaultRng(engine[1].seed), option[1].S, option[1].T,
                  option[1].r, option[1].sigma, option[1].q).paths

\* the knock-out and the knock-in kind of the direction of a kind
C13_OutKind(kind) == IF HasUp(kind) THEN "up-and-out" ELSE "down-and-out"
C13_InKind(kind) == IF HasUp(kind) THEN "up-and-in" ELSE "down-and-in"

\* max(+/-(S_T - K), 0) on every path
C13_Vanilla(paths, o) ==
    [i \in 1..Len(paths) |->
        IF o.option_type = "call" THEN Max(paths[i][Len(paths[i])] - o.K, 0)
                                  ELSE Max(o.K - paths[i][Len(paths[i])], 0)]

C13_Abs(x) == IF x < 0 THEN 0 - x ELSE x

C13_Parity(o, e, paths, vanilla, out, in) ==
    /\ \A i \in 1..Len(paths) :
          \/ out.pay[i] = vanilla[i] /\ in.pay[i] = 0
          \/ out.pay[i] = 0 /\ in.pay[i] = vanilla[i]
    /\ SumSeq(out.pay) + SumSeq(in.pay) = SumSeq(vanilla)
    /\ C13_Abs(out.price + in.price - DiscountedMean(vanilla, o.r, o.T)) <= 2
    /\ out.price <= DiscountedMean(vanilla, o.r, o.T)
    /\ last.value = IF HasOut(o.barrier_type) THEN out.price ELSE in.price

\* payoffs and price() of option o with its kind replaced
C13_Twin(o, e, paths, kind) ==
    Only({ [pay |-> BarrierPayoffs(paths, o.K, o.option_type = "call", kind,
                                   o.barrier_level),
            price |-> Price(twin, e, DefaultRng(e.seed)).value] :
             twin \in {[o EXCEPT !.barrier_type = kind]} })

(***************************************************************************)
(* C13: on the path set of one seed, N, M and parameter set, on every path *)
(* exactly one of the knock-out and the knock-in option of a direction and *)
(* level pays the vanilla payoff and the other pays 0; so the two payoff   *)
(* sums add up to the vanilla sum, the two prices add up to the discounted *)
(* vanilla mean (within the two roundings of the fixed-point quotient),    *)
(* and the knock-out price never exceeds the vanilla price.                *)
(***************************************************************************)
C13_InOutParity ==
    (last.op = "price" /\ option[1].style = "barrier") =>
        \A paths \in {C13_Paths} :
        \A out \in {C13_Twin(option[1], engine[1], paths,
                              C13_OutKind(option[1].barrier_type))} :
        \A in \in {C13_Twin(option[1], engine[1], paths,
                             C13_InKind(option[1].barrier_type))} :
           C13_Parity(option[1], engine[1], paths, C13_Vanilla(paths, option[1]), out, in)

\* a knock-in price where the knock-out twin pays on another path: both
\* prices are positive
C13_Witness ==
    /\ last.op = "price"
    /\ option[1].style = "barrier"
    /\ option[1].barrier_type = "up-and-in"
    /\ last.value > 0
    /\ Price([option[1] EXCEPT !.barrier_type = "up-and-out"], engine[1],
             DefaultRng(engine[1].seed)).value > 0

\* the knock rule: some column of the path, column 0 included, is at or
\* beyond the level
C14_KnockedRule(row, kind, B) ==
    IF HasUp(kind) THEN \E c \in 1..Len(row) : row[c] >= B
                   ELSE \E c \in 1..Len(row) : row[c] <= B

C14_PayoffRule(row, o) ==
    LET vanilla == IF o.option_type = "call" THEN Max(row[Len(row)] - o.K, 0)
                                             ELSE Max(o.K - row[Len(row)], 0)
        knocked == C14_KnockedRule(row, o.barrier_type, o.barrier_level)
    IN IF o.barrier_type \in {"up-and-out", "down-and-out"}
       THEN (IF knocked THEN 0 ELSE vanilla)
       ELSE (IF knocked THEN vanilla ELSE 0)

(***************************************************************************)
(* C14: a path is knocked iff one of its columns, column 0 included, is    *)
(* >= B (up kinds) or <= B (down kinds); a knocked path pays 0 for the     *)
(* -out kinds and the vanilla terminal payoff for the -in kinds, an        *)
(* unknocked path the other way round; price() and _price_from_paths are   *)
(* the discounted mean of these payoffs.                                   *)
(***************************************************************************)
C14_KnockedOverAllColumns ==
    (last.op = "price" /\ option[1].style = "barrier") =>
        \A paths \in {C13_Paths} :
        \A rule \in {[i \in 1..Len(paths) |-> C14_PayoffRule(paths[i], option[1])]} :
           /\ BarrierPayoffs(paths, option[1].K, option[1].option_type = "call",
                             option[1].barrier_type, option[1].barrier_level) = rule
           /\ last.value = DiscountedMean(rule, option[1].r, option[1].T)
           /\ PriceFromPaths(option[1], engine[1], paths)
                 = DiscountedMean(rule, option[1].r, option[1].T)

\* an up-and-out price over paths of which one only touches the level, after
\* column 0, and would have paid
C14_Witness ==
    /\ last.op = "price"
    /\ option[1].style = "barrier"
    /\ option[1].barrier_type = "up-and-out"
    /\ last.value > 0
    /\ \E i \in 1..Len(C13_Paths) :
          /\ MaxSeq(C13_Paths[i]) = option[1].barrier_level
          /\ C13_Paths[i][1] < option[1].barrier_level
          /\ C13_Vanilla(C13_Paths, option[1])[i] > 0

\* a down-and-in price where the spot itself is at the level: every path is
\* knocked at column 0
C14_WitnessColumn0 ==
    /\ last.op = "price"
    /\ option[1].style = "barrier"
    /\ option[1].barrier_type = "down-and-in"
    /\ option[1].barrier_level = option[1].S
    /\ last.value > 0
    /\ \E i \in 1..Len(C13_Paths) : MinSeq(Tail(C13_Paths[i])) > option[1].barrier_level

(***************************************************************************)
(* American options over a grid of strikes, sides and path sets            *)
(***************************************************************************)
AmericanEngines == {<<3, 3, 42>>, <<3, 3, 7>>, <<3, 2, 7>>, <<2, 2, 42>>}

AmericanScenarios ==
    { Scenario([AmericanPut EXCEPT !.option_type = option_type, !.K = K],
               nms[1], nms[2], nms[3]) :
        option_type \in {"call", "put"}, K \in {55, 65}, nms \in AmericanEngines }

InitAmerican ==
    /\ \E s1 \in AmericanScenarios :
          /\ option = <<s1.opt, None>>
          /\ engine = <<s1.eng, NewEngineObj(1, 1, 42)>>
    /\ rng = [i \in Inst |-> DefaultRng(engine[i].seed)]
    /\ gen = [i \in Inst |-> GenNew]
    /\ last = None
    /\ snap = None
    /\ calc = None

SpecAmerican == InitAmerican /\ [][NextOption]_vars

\* intrinsic value of path i at step t, as the specification words it
C15_Intrinsic(paths, o, i, t) ==
    IF o.option_type = "call" THEN Max(paths[i][t + 1] - o.K, 0)
                              ELSE Max(o.K - paths[i][t + 1], 0)

\* the steps in the order the specification gives: M-1, M-2, ..., 1
C15_Order(M) == [k \in 1..(M - 1) |-> M - k]

\* the cash flows before each visited step, when the steps are visited in
\* the order given: element k belongs to step order[k], and the element
\* after the last is the final vector
RECURSIVE C15_Before(_, _, _, _, _)
C15_Before(paths, o, dt, order, cash_flows) ==
    IF order = <<>> THEN <<cash_flows>>
    ELSE <<cash_flows>> \o
         Only({C15_Before(paths, o, dt, Tail(order), next) :
                  next \in {LsmStep(paths, o.K, o.r, dt, o.option_type, cash_flows,
                                    Head(order))}})

\* the paths the specification lets exercise at step t: in the money, and intrinsic
\* value strictly above the regression estimate
C15_Exercised(paths, o, dt, cash_flows, t) ==
    Only({ {i \in itm :
              \E c \in {Continuation(paths, DiscountedCf(cash_flows, o.r, dt), itm, t, i)} :
                 C15_Intrinsic(paths, o, i, t) * c.den > c.num} :
             itm \in {{i \in 1..Len(paths) : C15_Intrinsic(paths, o, i, t) > 0}} })

\* the step from before to after follows the specification's rule
C15_StepRule(paths, o, dt, before, after, t) ==
    \A ex \in {C15_Exercised(paths, o, dt, before, t)} :
    \A discounted \in {DiscountedCf(before, o.r, dt)} :
       /\ \A i \in ex : after[i] = C15_Intrinsic(paths, o, i, t)
       /\ \A i \in (1..Len(paths)) \ ex : after[i] \in {before[i], discounted[i]}
       /\ \A i \in 1..Len(paths) :
             C15_Intrinsic(paths, o, i, t) = 0 => after[i] = before[i]
       /\ (\A i \in 1..Len(paths) : C15_Intrinsic(paths, o, i, t) = 0) => after = before

\* the terminal cash flows
C15_Terminal(paths, o, M) == [i \in 1..Len(paths) |-> C15_Intrinsic(paths, o, i, M)]

C15_Holds(paths, o, e, dt, order, trace) ==
    /\ \A k \in 1..Len(order) :
          C15_StepRule(paths, o, dt, trace[k], trace[k + 1], order[k])
    /\ LsmLoop(paths, o.K, o.r, dt, o.option_type, trace[1], e.num_steps - 1)
          = trace[Len(trace)]
    /\ last.value = (DiscountStep(o.r, dt) * Mean(trace[Len(trace)])) \div One

(***************************************************************************)
(* C15: the backward induction visits the steps M-1, M-2, ..., 1 and no    *)
(* other; at each step the paths whose cash flow becomes the exercise      *)
(* value are exactly the in-the-money paths whose intrinsic value is       *)
(* strictly above the regression estimate; a path out of the money keeps   *)
(* its cash flow, and at a step with no path in the money nothing changes. *)
(***************************************************************************)
C15_LsmOrderAndExercise ==
    (last.op = "price" /\ option[1].style = "american") =>
        \A paths \in {C13_Paths} :
        \A dt \in {DtFx(option[1].T, engine[1].num_steps)} :
        \A order \in {C15_Order(engine[1].num_steps)} :
        \A trace \in {C15_Before(paths, option[1], dt, order,
                                  C15_Terminal(paths, option[1], engine[1].num_steps))} :
           C15_Holds(paths, option[1], engine[1], dt, order, trace)

\* a price over three steps where, at one visited step, one path in the
\* money exercises, another path in the money does not, and at another
\* visited step no path is in the money
C15_WitnessAt(paths, o, dt, order, trace) ==
    /\ \E k \in 1..Len(order) :
          \E i, j \in 1..Len(paths) :
             /\ i \in C15_Exercised(paths, o, dt, trace[k], order[k])
             /\ j \notin C15_Exercised(paths, o, dt, trace[k], order[k])
             /\ C15_Intrinsic(paths, o, j, order[k]) > 0
    /\ \E k \in 1..Len(order) :
          \E i \in 1..Len(paths) : C15_Intrinsic(paths, o, i, order[k]) = 0

C15_Witness ==
    /\ last.op = "price"
    /\ option[1] # None
    /\ option[1].style = "american"
    /\ engine[1].num_steps = 3
    /\ last.value > 0
    /\ C15_WitnessAt(C13_Paths, option[1], DtFx(option[1].T, 3), C15_Order(3),
                     C15_Before(C13_Paths, option[1], DtFx(option[1].T, 3), C15_Order(3),
                                C15_Terminal(C13_Paths, option[1], 3)))

\* every path that does not exercise at step t carries its cash flow forward
\* discounted by one step factor
C16_StepDiscounts(paths, o, dt, before, after, t) ==
    \A ex \in {C15_Exercised(paths, o, dt, before, t)} :
    \A discounted \in {DiscountedCf(before, o.r, dt)} :
       \A i \in (1..Len(paths)) \ ex : after[i] = discounted[i]

(***************************************************************************)
(* C16: at every backward step of the induction each path that does not    *)
(* exercise carries forward its cash flow discounted by one step factor,   *)
(* whether or not that path, or any path, is in the money at the step.     *)
(***************************************************************************)
C16_CarriedCashFlowsDiscounted ==
    (last.op = "price" /\ option[1].style = "american") =>
        \A paths \in {C13_Paths} :
        \A dt \in {DtFx(option[1].T, engine[1].num_steps)} :
        \A order \in {C15_Order(engine[1].num_steps)} :
        \A trace \in {C15_Before(paths, option[1], dt, order,
                                  C15_Terminal(paths, option[1], engine[1].num_steps))} :
           \A k \in 1..Len(order) :
              C16_StepDiscounts(paths, option[1], dt, trace[k], trace[k + 1], order[k])

\* price() of option o with its rate set to r, from the initial seed
C17_PriceAtRate(o, e, r) == Price([o EXCEPT !.r = r], e, DefaultRng(e.seed)).value

(***************************************************************************)
(* C17: rho(h) of an American, Asian or Barrier option equals              *)
(* (P(r+h) - P(r-h)) / (2h), with P(r') the price price() returns for the  *)
(* same option and seed with its rate set to r': the bumped rate both      *)
(* drives the paths and discounts the payoffs.                             *)
(***************************************************************************)
C17_RhoOfBumpedPrices ==
    (last.op = "rho" /\ option[1].style # "european") =>
        \A up \in {C17_PriceAtRate(option[1], engine[1], option[1].r + RhoBump)} :
        \A down \in {C17_PriceAtRate(option[1], engine[1], option[1].r - RhoBump)} :
           last.value = ((up - down) * One) \div (2 * RhoBump)

\* price() of option o with its maturity set to T, from the initial seed
C18_PriceAtMaturity(o, e, T) == Price([o EXCEPT !.T = T], e, DefaultRng(e.seed)).value

\* the simulate_paths calls of the call that just returned, in order
C18_Simulations == SelectSeq(last.log, LAMBDA c : c.call = "simulate_paths")

(***************************************************************************)
(* C18: theta of an American, Asian or Barrier option makes two pricing    *)
(* calls, each simulating from the first draw of the seed's stream: one at *)
(* maturity T and one at maturity max(T - 1/365, 1e-10), which is positive *)
(* also for T = 0; it returns the second price minus the first, divided by *)
(* the bump.                                                               *)
(***************************************************************************)
C18_ThetaTwoPricings ==
    (last.op = "theta" /\ option[1].style # "european") =>
        \A sims \in {C18_Simulations} :
        \A T_bump \in {Max(option[1].T - ThetaBump, TFloor)} :
           /\ Len(sims) = 2
           /\ \A k \in 1..2 : sims[k].start = DefaultRng(engine[1].seed)
           /\ sims[1].T = option[1].T
           /\ sims[2].T = T_bump
           /\ T_bump > 0
           /\ last.value =
                 ((C18_PriceAtMaturity(option[1], engine[1], T_bump)
                   - C18_PriceAtMaturity(option[1], engine[1], option[1].T))
                  * TicksPerYear) \div ThetaBump

\* a nonzero theta returned by an option whose generator had been advanced
C18_Witness ==
    /\ last.op = "theta"
    /\ option[1] # None
    /\ option[1].style # "european"
    /\ last.start.pos > 0
    /\ last.value # 0

\* theta of an option at maturity: the second pricing runs at the floor
C18_WitnessAtMaturity ==
    /\ last.op = "theta"
    /\ option[1] # None
    /\ option[1].T = 0
    /\ C18_Simulations[2].T = TFloor

(***************************************************************************)
(* C19: _price_from_paths, applied to the paths simulated from the initial *)
(* seed with the option's own S, r, sigma and q, returns the value price() *)
(* returns, for American, Asian and Barrier options alike.                 *)
(***************************************************************************)
C19_EvaluatorsAgree ==
    (last.op = "price" /\ option[1].style # "european") =>
        PriceFromPaths(option[1], engine[1], C13_Paths) = last.value

\* a positive Asian call price returned by a generator that had been advanced
C19_Witness ==
    /\ last.op = "price"
    /\ option[1] # None
    /\ option[1].style = "asian"
    /\ option[1].option_type = "call"
    /\ last.start.pos > 0
    /\ last.value > 0

\* price() of option o with the averaging method average_type
C20_PriceAveraging(o, e, average_type) ==
    Price([o EXCEPT !.average_type = average_type], e, DefaultRng(e.seed)).value

(***************************************************************************)
(* C20: an Asian request the facade accepts is priced with the averaging   *)
(* method it names, read case-insensitively as validate_asian_params reads *)
(* it: arithmetic averaging for an average_type recognised as arithmetic,  *)
(* geometric averaging for one recognised as geometric.                    *)
(***************************************************************************)
C20_PricedWithNamedAveraging ==
    ( /\ last.op \in {"calculate", "calculate_from_config"}
      /\ last.outcome = "returned"
      /\ last.held = None
      /\ Lower(last.config.option_style) = "asian"
      /\ Lower(last.config.average_type) \in {"arithmetic", "geometric"} )
    => last.value.price
         = C20_PriceAveraging(option[1], engine[1], Lower(last.config.average_type))

\* the option passes the validators create_option applies to its style
C21_Accepted(o) ==
    /\ ValidateOptionParams(o.S, o.K, o.T, o.r, o.sigma, o.q) = Valid
    /\ o.style = "barrier"
          => ValidateBarrierParams(o.barrier_type, o.barrier_level, o.S) = Valid
    /\ o.style = "asian" => ValidateAsianParams(o.average_type) = Valid

C21_PositivePrice == \A k \in SimCalls : last.log[k].S0 > 0
C21_PositiveVolatility == \A k \in SimCalls : last.log[k].sigma > 0
C21_SameSideOfBarrier ==
    option[1].style = "barrier" =>
        \A k \in SimCalls :
           /\ HasUp(option[1].barrier_type) => last.log[k].S0 < option[1].barrier_level
           /\ HasDown(option[1].barrier_type) => last.log[k].S0 > option[1].barrier_level

(***************************************************************************)
(* C21: for an option the validators accept, every simulation that delta,  *)
(* gamma, vega or rho starts with the default bumps has a starting price   *)
(* above 0 and a volatility above 0, and for a barrier option a starting   *)
(* price on the side of the barrier level on which S lies.                 *)
(***************************************************************************)
C21_GreeksSimulateValidInputs ==
    ( /\ last.op \in {"delta", "gamma", "vega", "rho"}
      /\ option[1].style # "european"
      /\ C21_Accepted(option[1]) )
    => /\ C21_PositivePrice
       /\ C21_PositiveVolatility
       /\ C21_SameSideOfBarrier

(***************************************************************************)
(* C22: after every calculate() on a calculator, also after its config was *)
(* changed, the 'parameters' entry of the result describes the option that *)
(* produced the 'price' and 'greeks' entries: building an option from the  *)
(* parameters gives the option and engine that priced.                     *)
(***************************************************************************)
C22_ParametersDescribePricedOption ==
    (last.op = "calculate" /\ last.outcome = "returned") =>
        \A c \in {CreateOptionResult(calc.results.parameters)} :
           /\ c.outcome = "returned"
           /\ c.opt = option[1]
           /\ c.eng = engine[1]

(***************************************************************************)
(* C23: a request whose option_type is neither 'call' nor 'put', whatever  *)
(* its case, is never priced: the call that builds its option ends in an   *)
(* error and returns no price.                                             *)
(***************************************************************************)
C23_UnknownSideNeverPriced ==
    ( /\ last.op \in {"calculate", "calculate_from_config"}
      /\ last.held = None
      /\ Lower(last.config.option_type) \notin {"call", "put"} )
    => last.outcome # "returned"

====
